---- MODULE Spec2Model ----
(***************************************************************************)
(* A model of clouddns: the reconciliation engine of src/src/ddns.rs       *)
(* (CloudflareDdns: get_current_ip, get_record_content, update_record,     *)
(* update_all_records, run) and the provider client of                     *)
(* src/src/api/cloudflare.rs (CloudflareClient: get_record,                *)
(* update_record).  Every network call is one step whose response is       *)
(* chosen by the environment.                                              *)
(***************************************************************************)
EXTENDS Integers, Sequences, FiniteSets, TLC

\* ------------------------------------------------------------------------
\* Bounds of the model
\* ------------------------------------------------------------------------

\* The longest DNS record list the provider's zone holds.
MaxRecords == 2

\* ------------------------------------------------------------------------
\* Text and IPv4 addresses.  A text is a sequence of one-character strings;
\* an Ipv4Addr is a tuple of four octets.
\* ------------------------------------------------------------------------

\* Option: None is the empty sequence, Some(x) the sequence of x alone.
None == <<>>

Some(x) == <<x>>

\* Result: Ok(v) or Err(kind).
Ok(v) == [ok |-> TRUE, val |-> v, err |-> ""]

Err(e) == [ok |-> FALSE, val |-> <<>>, err |-> e]

Digits == <<"0", "1", "2", "3", "4", "5", "6", "7", "8", "9">>

IsDigit(c) == \E i \in 1..10 : Digits[i] = c

DigitVal(c) == (CHOOSE i \in 1..10 : Digits[i] = c) - 1

\* The parts of a text between its dots ("1.2" has two, "1." has two, "" one).
RECURSIVE SplitDots(_)
SplitDots(s) ==
    IF s = <<>> THEN << <<>> >>
    ELSE LET rest == SplitDots(Tail(s))
         IN  IF Head(s) = "." THEN << <<>> >> \o rest
             ELSE << <<Head(s)>> \o Head(rest) >> \o Tail(rest)

RECURSIVE DecimalVal(_)
DecimalVal(p) ==
    IF p = <<>> THEN 0
    ELSE DecimalVal(SubSeq(p, 1, Len(p) - 1)) * 10 + DigitVal(p[Len(p)])

\* One octet as Ipv4Addr::from_str reads it: one to three decimal digits, no
\* leading zero on a longer number, at most 255.
OctetOk(p) ==
    /\ Len(p) \in 1..3
    /\ \A i \in 1..Len(p) : IsDigit(p[i])
    /\ (Len(p) > 1 => p[1] # "0")
    /\ DecimalVal(p) <= 255

\* Ipv4Addr::from_str: the parsed address, or an error when the text is not
\* four dotted octets.
Ipv4FromStr(s) ==
    LET parts == SplitDots(s)
    IN  IF Len(parts) = 4 /\ \A i \in 1..4 : OctetOk(parts[i])
        THEN Ok([i \in 1..4 |-> DecimalVal(parts[i])])
        ELSE Err("parse")

OctetToString(n) ==
    IF n >= 100 THEN <<Digits[(n \div 100) + 1], Digits[((n \div 10) % 10) + 1], Digits[(n % 10) + 1]>>
    ELSE IF n >= 10 THEN <<Digits[(n \div 10) + 1], Digits[(n % 10) + 1]>>
    ELSE <<Digits[n + 1]>>

\* Ipv4Addr::to_string: the canonical dotted form.
Ipv4ToString(ip) ==
    OctetToString(ip[1]) \o <<".">> \o OctetToString(ip[2]) \o <<".">>
        \o OctetToString(ip[3]) \o <<".">> \o OctetToString(ip[4])

\* ------------------------------------------------------------------------
\* Configuration (Config, Domain of ddns.rs), as the tests load it
\* ------------------------------------------------------------------------

record_ttl == 1

domain_list ==
    << [name |-> "a.example.com", record |-> "a"],
       [name |-> "b.example.com", record |-> "b"] >>

NumDomains == Len(domain_list)

DomainNames == {domain_list[i].name : i \in 1..NumDomains}

\* update_interval of the configuration, in minutes.
test_update_interval == 300

\* ------------------------------------------------------------------------
\* u64 arithmetic.  A u64 is a sequence of NumLimbs limbs of 16 bits each,
\* the least significant first.
\* ------------------------------------------------------------------------

LimbBase == 65536

NumLimbs == 4

\* The u64 of a number below LimbBase * LimbBase.
U64(n) == [i \in 1..NumLimbs |->
             IF i = 1 THEN n % LimbBase
             ELSE IF i = 2 THEN n \div LimbBase
             ELSE 0]

\* The limbs from i on of x * k + carry, and the carry out of the last limb.
RECURSIVE mul_from(_, _, _, _)
mul_from(x, k, i, carry) ==
    IF i > NumLimbs THEN [val |-> <<>>, carry |-> carry]
    ELSE LET p == x[i] * k + carry
             rest == mul_from(x, k, i + 1, p \div LimbBase)
         IN  [val |-> <<p % LimbBase>> \o rest.val, carry |-> rest.carry]

\* x * k on u64: the product modulo 2^64, and whether it did not fit.
u64_mul(x, k) ==
    LET m == mul_from(x, k, 1, 0)
    IN  [val |-> m.val, overflow |-> m.carry # 0]

\* The quotient limbs from i down of (rem * 2^(16i) + x[1..i]) / k, and the
\* remainder.
RECURSIVE div_from(_, _, _, _)
div_from(x, k, i, rem) ==
    IF i = 0 THEN [quot |-> <<>>, rem |-> rem]
    ELSE LET cur == rem * LimbBase + x[i]
             rest == div_from(x, k, i - 1, cur % k)
         IN  [quot |-> rest.quot \o <<cur \div k>>, rem |-> rest.rem]

\* x / k and x % k on u64.
u64_divrem(x, k) == div_from(x, k, NumLimbs, 0)

\* The seconds of a minute: run's factor.
SecondsPerMinute == 60

\* ------------------------------------------------------------------------
\* The environment: the address-echo service and the DNS provider's zone
\* ------------------------------------------------------------------------

T_1111 == <<"1", ".", "1", ".", "1", ".", "1">>

T_2222 == <<"2", ".", "2", ".", "2", ".", "2">>

\* three octets only
T_111 == <<"1", ".", "1", ".", "1">>

\* an octet above 255
T_256 == <<"2", "5", "6", ".", "1", ".", "1", ".", "1">>

IpTexts == {T_1111, T_2222, T_111, T_256}

\* What the echo service may answer: nothing (unreachable), or an HTTP
\* response with a status and a body that is malformed or {"ip": text}.
EchoResponses ==
    {[kind |-> "unreachable", status |-> 0, json |-> FALSE, ip |-> <<>>]}
    \cup {[kind |-> "http", status |-> s, json |-> FALSE, ip |-> <<>>] : s \in {200, 500}}
    \cup {[kind |-> "http", status |-> 200, json |-> TRUE, ip |-> t] : t \in IpTexts}
    \cup {[kind |-> "http", status |-> 500, json |-> TRUE, ip |-> T_1111]}

RecordIds == <<"r1", "r2", "r3", "r4">>

RecordTypes == {"A", "AAAA"}

RecordContents == {T_1111, T_2222}

\* A DNS record as the provider's JSON carries it.
ProviderRecord(i, n, c, t, p) ==
    [id |-> RecordIds[i], name |-> n, content |-> c, type |-> t,
     proxied |-> p, ttl |-> 300]

RECURSIVE Zones(_)
\* Every record list of length n: ids by position, any name, content, type, proxy flag.
Zones(n) ==
    IF n = 0 THEN {<<>>}
    ELSE {Append(z, ProviderRecord(n, nm, c, t, p)) :
              z \in Zones(n - 1), nm \in DomainNames, c \in RecordContents,
              t \in RecordTypes, p \in BOOLEAN}

\* The HTTP status and success flag of the provider's envelopes: success is
\* answered with 200, failure with 200 or with 400.
Envelopes == {<<200, TRUE>>, <<200, FALSE>>, <<400, FALSE>>}

\* The envelope {result, success, errors} of a list or update call, or no
\* envelope at all: a transport failure, or a body that does not deserialize.
ListResponses(z) ==
    {[kind |-> k, status |-> 0, success |-> FALSE, result |-> <<>>] : k \in {"neterr", "badjson"}}
    \cup {[kind |-> "json", status |-> e[1], success |-> e[2], result |-> z] : e \in Envelopes}

UpdateResponses ==
    {[kind |-> k, status |-> 0, success |-> FALSE] : k \in {"neterr", "badjson"}}
    \cup {[kind |-> "json", status |-> e[1], success |-> e[2]] : e \in Envelopes}

\* The provider stores a relative record name under the zone's name.
Fqdn(n) ==
    IF \E i \in 1..NumDomains : domain_list[i].record = n
    THEN domain_list[CHOOSE i \in 1..NumDomains : domain_list[i].record = n].name
    ELSE n

\* The provider applies a PATCH it answers with success: the addressed record
\* takes the body's fields; every other record is left as it is.
ProviderApply(z, req, resp) ==
    IF resp.kind = "json" /\ resp.success
    THEN [i \in 1..Len(z) |->
             IF z[i].id = req.id
             THEN [id |-> z[i].id, name |-> Fqdn(req.body.name),
                   content |-> req.body.content, type |-> req.body.type,
                   proxied |-> req.body.proxied, ttl |-> req.body.ttl]
             ELSE z[i]]
    ELSE z

\* ------------------------------------------------------------------------
\* CloudflareDdns (ddns.rs): the pure part of each call
\* ------------------------------------------------------------------------

\* get_current_ip with a fallback address in place of its errors.
get_current_ip_or_unspecified(resp) ==
    IF resp.kind = "unreachable" \/ ~resp.json \/ ~Ipv4FromStr(resp.ip).ok
    THEN Ok([i \in 1..4 |-> 0])
    ELSE Ipv4FromStr(resp.ip)

\* get_current_ip: the echo response's body is read as a TraceResponse and
\* its ip text parsed; the response's status is not looked at.
get_current_ip(resp) ==
    IF resp.kind = "unreachable" THEN Err("network")
    ELSE IF ~resp.json THEN Err("parse")
    ELSE Ipv4FromStr(resp.ip)

\* Iterator::find over the records: the index of the first one named n, or 0.
RECURSIVE find_from(_, _, _)
find_from(records, n, i) ==
    IF i > Len(records) THEN 0
    ELSE IF records[i].name = n THEN i
    ELSE find_from(records, n, i + 1)

\* The index of the last record named n, or 0.
find_last_by_name(records, n) ==
    IF \E i \in 1..Len(records) : records[i].name = n
    THEN CHOOSE i \in 1..Len(records) :
             /\ records[i].name = n
             /\ \A j \in 1..Len(records) : records[j].name = n => j <= i
    ELSE 0

find_by_name(records, n) == find_from(records, n, 1)

\* serde reads ddns.rs's ApiDnsRecord out of a provider record: the type is
\* not a field of it.
ApiDnsRecord(r) ==
    [id |-> r.id, name |-> r.name, content |-> r.content,
     proxied |-> r.proxied, ttl |-> r.ttl]

\* get_record_content: the list response's envelope is parsed and its success
\* flag checked before the first record named domain.name is returned.
get_record_content(resp, domain) ==
    IF resp.kind = "neterr" THEN Err("network")
    ELSE IF resp.kind = "badjson" THEN Err("parse")
    ELSE IF ~resp.success THEN Err("api")
    ELSE LET i == find_by_name(resp.result, domain.name)
         IN  IF i = 0 THEN Err("notfound") ELSE Ok(ApiDnsRecord(resp.result[i]))

\* The early return with its comparison inverted.
record_differs(record, ip) == record.content # Ipv4ToString(ip)

\* update_record's early return: the fetched content is the resolved IP's text.
record_up_to_date(record, ip) == record.content = Ipv4ToString(ip)

\* The PATCH body sending back the content just fetched.
patch_request_stale(record, ip, domain) ==
    [id |-> record.id,
     body |-> [type |-> "A", name |-> domain.record, content |-> record.content,
               ttl |-> record_ttl, proxied |-> record.proxied]]

\* update_record's PATCH: the record id in the URL and the JSON body.
patch_request(record, ip, domain) ==
    [id |-> record.id,
     body |-> [type |-> "A", name |-> domain.record, content |-> Ipv4ToString(ip),
               ttl |-> record_ttl, proxied |-> record.proxied]]

\* The reading of the PATCH response without the check of its success flag.
update_result_unchecked(resp) ==
    IF resp.kind = "neterr" THEN Err("network")
    ELSE IF resp.kind = "badjson" THEN Err("parse")
    ELSE Ok(<<>>)

\* update_record's reading of the PATCH response.
update_result(resp) ==
    IF resp.kind = "neterr" THEN Err("network")
    ELSE IF resp.kind = "badjson" THEN Err("parse")
    ELSE IF ~resp.success THEN Err("api")
    ELSE Ok(<<>>)

\* ------------------------------------------------------------------------
\* CloudflareClient (api/cloudflare.rs): the pure part of each call
\* ------------------------------------------------------------------------

\* serde reads api/models.rs's DnsRecordUpdate out of a provider record.
DnsRecordUpdate(r) ==
    [id |-> r.id, name |-> r.name, content |-> r.content, ttl |-> r.ttl,
     proxied |-> r.proxied, type |-> r.type]

\* get_record: the list response is deserialized and the first record named
\* domain is returned; the envelope's success flag is not read.
get_record(resp, domain) ==
    IF resp.kind = "neterr" THEN Err("network")
    ELSE IF resp.kind = "badjson" THEN Err("parse")
    ELSE LET i == find_by_name(resp.result, domain)
         IN  IF i = 0 THEN Err("notfound") ELSE Ok(DnsRecordUpdate(resp.result[i]))

\* update_record's PATCH: the record id in the URL and the JSON body.
update_record_request(record, content, ttl) ==
    [id |-> record.id,
     body |-> [type |-> record.type, name |-> record.name,
               content |-> Ipv4ToString(content), ttl |-> ttl,
               proxied |-> record.proxied]]

\* update_record's reading of the PATCH response: Ok carries the envelope's
\* result, the record as the provider now holds it.
update_record_result(resp, updated) ==
    IF resp.kind = "neterr" THEN Err("network")
    ELSE IF resp.kind = "badjson" THEN Err("parse")
    ELSE IF ~resp.success THEN Err("api")
    ELSE Ok(updated)

\* ------------------------------------------------------------------------
\* State
\* ------------------------------------------------------------------------

VARIABLES
    zone,        \* the provider's record list for zone_id, in list order
    pc,          \* where run is: "idle", "resolve", "fetch", "patch", "sleep"
    idx,         \* the index in domain_list of the domain being processed
    ip,          \* update_all_records' local current_ip in this cycle (Option)
    current_ip,  \* CloudflareDdns.current_ip (Option)
    fetched,     \* update_record's local record_content (Option)
    calls,       \* the network calls of the current cycle, in order
    outcome,     \* what the cycle logged for each domain
    result,      \* what the last finished update_all_records returned
    signal,      \* "none", or where run was when the shutdown signal was raised
    settled,     \* the IP of the cycle before this one if it returned Ok (Option)
    clientRec,   \* the record the last CloudflareClient::get_record returned
    clientOut,   \* the last CloudflareClient call: its inputs and its result
    update_interval, \* config.update_interval, minutes (u64)
    interval     \* run's interval in seconds (Option of u64), None before run

vars == <<zone, pc, idx, ip, current_ip, fetched, calls, outcome, result,
          signal, settled, clientRec, clientOut, update_interval, interval>>

NoOutcome == [i \in 1..NumDomains |-> "none"]

\* CloudflareDdns::new: the configuration is loaded and current_ip is None.
Init ==
    /\ zone \in UNION {Zones(n) : n \in 0..MaxRecords}
    /\ pc = "idle"
    /\ idx = 0
    /\ ip = None
    /\ current_ip = None
    /\ fetched = None
    /\ calls = <<>>
    /\ outcome = NoOutcome
    /\ result = "none"
    /\ signal = "none"
    /\ settled = None
    /\ clientRec = None
    /\ clientOut = [op |-> "none"]
    /\ update_interval = U64(test_update_interval)
    /\ interval = None

\* ------------------------------------------------------------------------
\* CloudflareDdns::run and update_all_records, one step per awaited call
\* ------------------------------------------------------------------------

\* run is entered: the interval is computed, update_interval * 60 in u64,
\* and the loop starts its first cycle at once.  A product that does not fit
\* panics in a build with overflow checks and wraps in one without.
Run ==
    /\ pc = "idle"
    /\ \E overflow_checks \in BOOLEAN :
         LET product == u64_mul(update_interval, SecondsPerMinute)
         IN  IF product.overflow /\ overflow_checks
             THEN pc' = "panicked" /\ interval' = None
             ELSE pc' = "resolve" /\ interval' = Some(product.val)
    /\ UNCHANGED <<zone, idx, ip, current_ip, fetched, calls, outcome, result,
                   signal, settled, clientRec, clientOut, update_interval>>

\* update_all_records returning Ok at once when the address it resolved is
\* the one current_ip holds.
GetCurrentIpShortCircuit ==
    /\ pc = "resolve"
    /\ \E resp \in EchoResponses :
         LET r == get_current_ip(resp)
         IN  /\ calls' = <<[op |-> "resolve", resp |-> resp]>>
             /\ outcome' = NoOutcome
             /\ fetched' = None
             /\ IF ~r.ok
                THEN /\ ip' = None
                     /\ idx' = 0
                     /\ result' = "err"
                     /\ pc' = "sleep"
                     /\ UNCHANGED current_ip
                ELSE /\ ip' = Some(r.val)
                     /\ current_ip' = Some(r.val)
                     /\ IF NumDomains = 0 \/ current_ip = Some(r.val)
                        THEN idx' = 0 /\ result' = "ok" /\ pc' = "sleep"
                        ELSE idx' = 1 /\ pc' = "fetch" /\ UNCHANGED result
    /\ UNCHANGED <<zone, signal, settled, clientRec, clientOut, update_interval, interval>>

\* update_all_records with its loop begun at the last entry of domain_list.
GetCurrentIpLastFirst ==
    /\ pc = "resolve"
    /\ \E resp \in EchoResponses :
         LET r == get_current_ip(resp)
         IN  /\ calls' = <<[op |-> "resolve", resp |-> resp]>>
             /\ outcome' = NoOutcome
             /\ fetched' = None
             /\ IF ~r.ok
                THEN /\ ip' = None
                     /\ idx' = 0
                     /\ result' = "err"
                     /\ pc' = "sleep"
                     /\ UNCHANGED current_ip
                ELSE /\ ip' = Some(r.val)
                     /\ current_ip' = Some(r.val)
                     /\ IF NumDomains = 0
                        THEN idx' = 0 /\ result' = "ok" /\ pc' = "sleep"
                        ELSE idx' = NumDomains /\ pc' = "fetch" /\ UNCHANGED result
    /\ UNCHANGED <<zone, signal, settled, clientRec, clientOut, update_interval, interval>>

\* update_all_records clearing current_ip when the resolution fails.
GetCurrentIpForgets ==
    /\ pc = "resolve"
    /\ \E resp \in EchoResponses :
         LET r == get_current_ip(resp)
         IN  /\ calls' = <<[op |-> "resolve", resp |-> resp]>>
             /\ outcome' = NoOutcome
             /\ fetched' = None
             /\ IF ~r.ok
                THEN /\ ip' = None
                     /\ idx' = 0
                     /\ result' = "err"
                     /\ pc' = "sleep"
                     /\ current_ip' = None
                ELSE /\ ip' = Some(r.val)
                     /\ current_ip' = Some(r.val)
                     /\ IF NumDomains = 0
                        THEN idx' = 0 /\ result' = "ok" /\ pc' = "sleep"
                        ELSE idx' = 1 /\ pc' = "fetch" /\ UNCHANGED result
    /\ UNCHANGED <<zone, signal, settled, clientRec, clientOut, update_interval, interval>>

\* update_all_records, from its entry to the first domain: get_current_ip is
\* awaited; an error returns from the cycle, an address is stored in
\* current_ip and the loop over domain_list begins.
GetCurrentIp ==
    /\ pc = "resolve"
    /\ \E resp \in EchoResponses :
         LET r == get_current_ip(resp)
         IN  /\ calls' = <<[op |-> "resolve", resp |-> resp]>>
             /\ outcome' = NoOutcome
             /\ fetched' = None
             /\ IF ~r.ok
                THEN /\ ip' = None
                     /\ idx' = 0
                     /\ result' = "err"
                     /\ pc' = "sleep"
                     /\ UNCHANGED current_ip
                ELSE /\ ip' = Some(r.val)
                     /\ current_ip' = Some(r.val)
                     /\ IF NumDomains = 0
                        THEN idx' = 0 /\ result' = "ok" /\ pc' = "sleep"
                        ELSE idx' = 1 /\ pc' = "fetch" /\ UNCHANGED result
    /\ UNCHANGED <<zone, signal, settled, clientRec, clientOut, update_interval, interval>>

\* update_record, up to its PATCH: get_record_content is awaited; an error
\* returns from update_record and, through update_all_records' Err arm, from
\* the cycle; an up-to-date record returns Ok and the loop goes on.
GetRecordContent ==
    /\ pc = "fetch"
    /\ \E resp \in ListResponses(zone) :
         LET r == get_record_content(resp, domain_list[idx])
         IN  /\ calls' = Append(calls, [op |-> "get", domain |-> idx, resp |-> resp])
             /\ IF ~r.ok
                THEN /\ outcome' = [outcome EXCEPT ![idx] = "failed"]
                     /\ result' = "err"
                     /\ pc' = "sleep"
                     /\ UNCHANGED <<idx, fetched>>
                ELSE IF record_up_to_date(r.val, ip[1])
                THEN /\ outcome' = [outcome EXCEPT ![idx] = "skipped"]
                     /\ fetched' = None
                     /\ IF idx < NumDomains
                        THEN idx' = idx + 1 /\ pc' = "fetch" /\ UNCHANGED result
                        ELSE result' = "ok" /\ pc' = "sleep" /\ UNCHANGED idx
                ELSE /\ fetched' = Some(r.val)
                     /\ pc' = "patch"
                     /\ UNCHANGED <<idx, outcome, result>>
    /\ UNCHANGED <<zone, ip, current_ip, signal, settled, clientRec, clientOut, update_interval, interval>>

\* update_record, from its PATCH on: the request is sent and its response
\* read; an error returns from the cycle, success goes on to the next domain.
PatchRecord ==
    /\ pc = "patch"
    /\ LET req == patch_request(fetched[1], ip[1], domain_list[idx])
       IN  \E resp \in UpdateResponses :
             LET r == update_result(resp)
             IN  /\ calls' = Append(calls, [op |-> "patch", domain |-> idx,
                                            req |-> req, resp |-> resp])
                 /\ zone' = ProviderApply(zone, req, resp)
                 /\ fetched' = None
                 /\ IF ~r.ok
                    THEN /\ outcome' = [outcome EXCEPT ![idx] = "failed"]
                         /\ result' = "err"
                         /\ pc' = "sleep"
                         /\ UNCHANGED idx
                    ELSE /\ outcome' = [outcome EXCEPT ![idx] = "updated"]
                         /\ IF idx < NumDomains
                            THEN idx' = idx + 1 /\ pc' = "fetch" /\ UNCHANGED result
                            ELSE result' = "ok" /\ pc' = "sleep" /\ UNCHANGED idx
    /\ UNCHANGED <<ip, current_ip, signal, settled, clientRec, clientOut, update_interval, interval>>

\* run with `?` on the cycle's result: a failed cycle returns from run.
SleepUnlessFailed ==
    /\ pc = "sleep"
    /\ IF result = "err"
       THEN /\ pc' = "stopped"
            /\ UNCHANGED <<idx, ip, fetched, calls, outcome, result, settled>>
       ELSE /\ pc' = "resolve"
            /\ idx' = 0
            /\ ip' = None
            /\ fetched' = None
            /\ calls' = <<>>
            /\ outcome' = NoOutcome
            /\ result' = "none"
            /\ settled' = ip
    /\ UNCHANGED <<zone, current_ip, signal, clientRec, clientOut, update_interval, interval>>

\* A timer that starts a cycle each time the interval elapses, whether the
\* cycle before it has returned or not.
IntervalTick ==
    /\ pc \in {"sleep", "fetch", "patch"}
    /\ pc' = "resolve"
    /\ idx' = 0
    /\ ip' = None
    /\ fetched' = None
    /\ calls' = <<>>
    /\ outcome' = NoOutcome
    /\ result' = "none"
    /\ settled' = IF result = "ok" THEN ip ELSE None
    /\ UNCHANGED <<zone, current_ip, signal, clientRec, clientOut, update_interval, interval>>

\* run's sleep(interval) elapses and the loop starts the next cycle; what the
\* finished cycle left behind (its locals, its calls and log lines) is gone.
Sleep ==
    /\ pc = "sleep"
    /\ pc' = "resolve"
    /\ idx' = 0
    /\ ip' = None
    /\ fetched' = None
    /\ calls' = <<>>
    /\ outcome' = NoOutcome
    /\ result' = "none"
    /\ settled' = IF result = "ok" THEN ip ELSE None
    /\ UNCHANGED <<zone, current_ip, signal, clientRec, clientOut, update_interval, interval>>

\* The hosting process receives a termination request: the future main hands
\* to run resolves.
ShutdownSignal ==
    /\ signal = "none"
    /\ signal' = pc
    /\ UNCHANGED <<zone, pc, idx, ip, current_ip, fetched, calls, outcome, result,
                   settled, clientRec, clientOut, update_interval, interval>>

\* run alone: no termination request arrives.
Next ==
    \/ Run
    \/ GetCurrentIp
    \/ GetRecordContent
    \/ PatchRecord
    \/ Sleep

Spec == Init /\ [][Next]_vars

\* run, and a termination request that may arrive at any moment.
SignalNext ==
    \/ Next
    \/ ShutdownSignal

SignalSpec == Init /\ [][SignalNext]_vars

\* The limbs the update_interval values are made of: 0x0000, 0x0001, 0x0444,
\* 0x4444, 0x4445 and 0xFFFF.  0x0444444444444444 is the largest u64 whose
\* product with 60 fits.
IntervalLimbs == {0, 1, 1092, 17476, 17477, LimbBase - 1}

\* The update_interval values the configuration accepts: u64, at least 1.
Intervals ==
    {x \in [1..NumLimbs -> IntervalLimbs] : \E i \in 1..NumLimbs : x[i] # 0}

\* CloudflareDdns::new over any accepted update_interval.
IntervalInit ==
    /\ zone = <<>>
    /\ pc = "idle"
    /\ idx = 0
    /\ ip = None
    /\ current_ip = None
    /\ fetched = None
    /\ calls = <<>>
    /\ outcome = NoOutcome
    /\ result = "none"
    /\ signal = "none"
    /\ settled = None
    /\ clientRec = None
    /\ clientOut = [op |-> "none"]
    /\ update_interval \in Intervals
    /\ interval = None

\* run from its entry to the start of its loop.
IntervalSpec == IntervalInit /\ [][Run]_vars

\* ------------------------------------------------------------------------
\* CloudflareClient driven through the DnsApiClient trait: a caller gets a
\* record by name and then updates the record it got.
\* ------------------------------------------------------------------------

Addresses == {Ipv4FromStr(T_1111).val, Ipv4FromStr(T_2222).val}

ClientGetRecord ==
    /\ \E d \in DomainNames, resp \in ListResponses(zone) :
         LET r == get_record(resp, d)
         IN  /\ clientOut' = [op |-> "get", domain |-> d, resp |-> resp, res |-> r]
             /\ clientRec' = IF r.ok THEN Some(r.val) ELSE None
    /\ UNCHANGED <<zone, pc, idx, ip, current_ip, fetched, calls, outcome, result,
                   signal, settled, update_interval, interval>>

ClientUpdateRecord ==
    /\ clientRec # None
    /\ \E content \in Addresses, resp \in UpdateResponses :
         LET req == update_record_request(clientRec[1], content, record_ttl)
             z   == ProviderApply(zone, req, resp)
             i   == CHOOSE j \in 1..Len(z) : z[j].id = req.id
         IN  /\ zone' = z
             /\ clientOut' = [op |-> "update", record |-> clientRec[1],
                              content |-> content, ttl |-> record_ttl, req |-> req,
                              resp |-> resp, res |-> update_record_result(resp, z[i])]
             /\ clientRec' = None
    /\ UNCHANGED <<pc, idx, ip, current_ip, fetched, calls, outcome, result,
                   signal, settled, update_interval, interval>>

ClientNext ==
    \/ ClientGetRecord
    \/ ClientUpdateRecord

ClientSpec == Init /\ [][ClientNext]_vars

\* Every awaited call completes and every sleep elapses.
Fairness ==
    /\ WF_vars(Run)
    /\ WF_vars(GetCurrentIp)
    /\ WF_vars(GetRecordContent)
    /\ WF_vars(PatchRecord)
    /\ WF_vars(Sleep)

FairSpec == SignalSpec /\ Fairness

\* The same without a termination request.
FairLoopSpec == Spec /\ Fairness

\* ------------------------------------------------------------------------
\* Properties
\* ------------------------------------------------------------------------

\* The places in the current cycle's calls of the calls of one kind, and of the
\* list and PATCH calls made for domain d.
Pos(op) == {k \in 1..Len(calls) : calls[k].op = op}

Gets(d) == {k \in Pos("get") : calls[k].domain = d}

Patches(d) == {k \in Pos("patch") : calls[k].domain = d}

Named(records, n) == {i \in 1..Len(records) : records[i].name = n}

FirstNamed(records, n) ==
    CHOOSE i \in Named(records, n) : \A j \in Named(records, n) : i <= j

\* A list response that delivers a record named n, and the record it delivers.
Delivers(resp, n) ==
    resp.kind = "json" /\ resp.success /\ Named(resp.result, n) # {}

Delivered(resp, n) == resp.result[FirstNamed(resp.result, n)]

\* An echo response that is no address: unreachable, malformed, or not IPv4.
NoAddress(resp) ==
    resp.kind = "unreachable" \/ ~resp.json \/ ~Ipv4FromStr(resp.ip).ok

Cancelled == signal # "none"

CycleDone == pc = "sleep"

\* C1: a domain whose fetched record content equals the text of the resolved
\* IP gets no PATCH in that cycle, and the provider's records change only in a
\* step that patches a record whose fetched content differs from that text.
C1_NoUpdateWhenEqual ==
    /\ [](\A d \in 1..NumDomains : \A k \in Gets(d) :
            (/\ Delivers(calls[k].resp, domain_list[d].name)
             /\ Delivered(calls[k].resp, domain_list[d].name).content = Ipv4ToString(ip[1]))
            => Patches(d) = {})
    /\ [][zone' # zone =>
            /\ pc = "patch"
            /\ fetched[1].content # Ipv4ToString(ip[1])]_vars

C1_Witness ==
    /\ CycleDone
    /\ outcome[1] = "skipped"
    /\ outcome[2] = "updated"
    /\ Patches(1) = {}

\* C2: a domain whose fetched content differs from the resolved IP gets
\* exactly one PATCH, carrying content = the resolved IP, ttl = record_ttl and
\* the type and proxied flag of the record just fetched; on a success answer
\* the domain is logged as updated, and the cycle returns Ok when that domain
\* is the last one.
C2_UpdateCarriesFetchedTypeAndProxy ==
    \A d \in 1..NumDomains : \A k \in Gets(d) :
        LET n == domain_list[d].name
        IN  (/\ Delivers(calls[k].resp, n)
             /\ Delivered(calls[k].resp, n).content # Ipv4ToString(ip[1])
             /\ outcome[d] # "none")
            => /\ Cardinality(Patches(d)) = 1
               /\ \A q \in Patches(d) :
                    /\ calls[q].req.body.content = Ipv4ToString(ip[1])
                    /\ calls[q].req.body.ttl = record_ttl
                    /\ calls[q].req.body.type = Delivered(calls[k].resp, n).type
                    /\ calls[q].req.body.proxied = Delivered(calls[k].resp, n).proxied
                    /\ (calls[q].resp.kind = "json" /\ calls[q].resp.success)
                         => /\ outcome[d] = "updated"
                            /\ (d = NumDomains => CycleDone /\ result = "ok")

\* C3: in a finished cycle whose IP resolution succeeded, every configured
\* domain was fetched, whatever failed before it.
C3_EveryDomainFetched ==
    (CycleDone /\ ip # None) => \A d \in 1..NumDomains : Gets(d) # {}

\* C4: a cycle whose IP resolution fails makes no provider call and ends
\* failed.
C4_NoProviderCallWithoutIp ==
    (calls # <<>> /\ NoAddress(calls[1].resp))
        => /\ Len(calls) = 1
           /\ CycleDone
           /\ result = "err"

C4_Witness ==
    /\ CycleDone
    /\ calls # <<>>
    /\ calls[1].resp.kind = "http"
    /\ calls[1].resp.json
    /\ calls[1].resp.ip = T_256
    /\ result = "err"

\* C5: once the shutdown signal has been raised during the inter-cycle wait,
\* run leaves the wait for Stopped only: no new cycle starts.
C5_SignalInWaitStops ==
    [][(signal = "sleep" /\ pc = "sleep") => pc' \in {"sleep", "stopped"}]_vars

\* C6: run returns only after the shutdown signal, and once the signal has
\* been raised run eventually reaches Stopped.
C6_RunBlocksUntilCancelled ==
    /\ [](pc = "stopped" => Cancelled)
    /\ (Cancelled ~> pc = "stopped")

\* C7: a PATCH answered with success = false, whatever its HTTP status, makes
\* update_record fail: the domain is logged as failed and the cycle returns
\* an error.
C7_UnsuccessfulUpdateFails ==
    \A k \in Pos("patch") :
        (calls[k].resp.kind = "json" /\ ~calls[k].resp.success)
            => /\ outcome[calls[k].domain] = "failed"
               /\ CycleDone
               /\ result = "err"

C7_Witness ==
    \E k \in Pos("patch") :
        /\ calls[k].resp.kind = "json"
        /\ calls[k].resp.status = 200
        /\ ~calls[k].resp.success
        /\ outcome[calls[k].domain] = "failed"

\* C8: CloudflareClient::get_record fails whenever the list response's
\* envelope has success = false, whatever its status and result: it returns no
\* record out of such an envelope.
C8_GetRecordChecksSuccess ==
    (/\ clientOut.op = "get"
     /\ clientOut.resp.kind = "json"
     /\ ~clientOut.resp.success)
        => ~clientOut.res.ok

\* C9: on a successful list response get_record returns the first record of
\* the list whose name is the requested one, and fails with not-found exactly
\* when the list holds no record of that name.
C9_FirstRecordByName ==
    (/\ clientOut.op = "get"
     /\ clientOut.resp.kind = "json"
     /\ clientOut.resp.success)
        => LET records == clientOut.resp.result
               m == Named(records, clientOut.domain)
           IN  /\ (m = {}) <=> (~clientOut.res.ok /\ clientOut.res.err = "notfound")
               /\ m # {} => /\ clientOut.res.ok
                            /\ clientOut.res.val = records[FirstNamed(records, clientOut.domain)]

C9_Witness ==
    /\ clientOut.op = "get"
    /\ clientOut.resp.kind = "json"
    /\ clientOut.resp.success
    /\ Cardinality(Named(clientOut.resp.result, clientOut.domain)) = 2
    /\ clientOut.resp.result[1].content # clientOut.resp.result[2].content
    /\ clientOut.res.ok
    /\ clientOut.res.val.id = RecordIds[1]

\* A list response from which no record named n can be fetched.
FetchFails(resp, n) ==
    resp.kind # "json" \/ ~resp.success \/ Named(resp.result, n) = {}

\* C10: a domain whose fetch fails gets no PATCH and is logged as failed, and
\* the cycle still fetches every other configured domain.
C10_FetchFailureIsContained ==
    \A d \in 1..NumDomains : \A k \in Gets(d) :
        FetchFails(calls[k].resp, domain_list[d].name)
            => /\ Patches(d) = {}
               /\ outcome[d] = "failed"
               /\ CycleDone => \A e \in 1..NumDomains : Gets(e) # {}

\* C11: a finished cycle whose IP resolution succeeded holds one outcome,
\* skipped, updated or failed, for every configured domain.
C11_ReportCoversEveryDomain ==
    (CycleDone /\ ip # None)
        => \A d \in 1..NumDomains : outcome[d] \in {"skipped", "updated", "failed"}

\* C12: run starts its first cycle without a wait before it; after a cycle,
\* failed or not, run does nothing but wait and start another cycle, and does
\* not return; again and again a cycle is started, and again and again a
\* cycle finishes.
C12_LoopNeverEnds ==
    /\ [][pc = "idle" => (pc' = "resolve" /\ calls' = <<>> /\ result' = "none")]_<<pc, calls, result>>
    /\ [][pc = "sleep" => pc' = "resolve"]_pc
    /\ [](pc # "stopped")
    /\ []<>(pc = "resolve")
    /\ []<>CycleDone

\* A cycle has been started after one that failed: current_ip tells of an
\* earlier resolution, and the cycle before this one did not return Ok.
C12_Witness ==
    /\ pc = "resolve"
    /\ current_ip # None
    /\ settled = None

\* C13: a shutdown signal raised while a cycle is in flight is acted upon
\* when that cycle has finished: run leaves the wait that follows it for
\* Stopped only, and no further cycle starts.
C13_SignalInFlightStopsAfterCycle ==
    [][(signal \in {"resolve", "fetch", "patch"} /\ pc = "sleep")
          => pc' \in {"sleep", "stopped"}]_vars

\* C14: a cycle starts only from the start of run or out of the wait that
\* follows a finished cycle, and it starts with nothing left of the cycle
\* before it; no call is made and no record changes while run waits.
C14_OneCycleAtATime ==
    /\ [][pc' = "resolve" => pc \in {"idle", "sleep"}]_pc
    /\ [][(pc = "idle" \/ pc = "sleep") => (zone' = zone /\ (calls' = <<>> \/ calls' = calls))]_vars
    /\ [](pc = "resolve" => (calls = <<>> /\ idx = 0 /\ fetched = None))

\* A later cycle is in flight with the signal raised.
C14_Witness ==
    /\ pc = "patch"
    /\ settled # None
    /\ Cancelled

\* C15: a finished cycle whose IP resolution succeeded has read every
\* configured domain's record once, whether the resolved IP is the one the
\* cycle before it settled or not, and has sent a PATCH for every record read
\* whose content was not the resolved IP.
C15_EveryCycleReadsEveryRecord ==
    (CycleDone /\ ip # None)
        => \A d \in 1..NumDomains :
              /\ Cardinality(Gets(d)) = 1
              /\ \A k \in Gets(d) :
                    (/\ Delivers(calls[k].resp, domain_list[d].name)
                     /\ Delivered(calls[k].resp, domain_list[d].name).content
                           # Ipv4ToString(ip[1]))
                        => Patches(d) # {}

C17_ResolutionChecksStatus ==
    calls # <<>>
        => /\ Cardinality(Pos("resolve")) = 1
           /\ ip # None <=> /\ calls[1].resp.kind = "http"
                            /\ calls[1].resp.status = 200
                            /\ calls[1].resp.json
                            /\ Ipv4FromStr(calls[1].resp.ip).ok

\* C18: the cycle's calls are in order: the first and only the first is the
\* IP resolution, and it has yielded an address before any provider call; a
\* PATCH directly follows the lookup of its own domain; each domain has at
\* most one lookup and one PATCH; the calls are in configuration order, and
\* a domain's lookup is made only when the domain before it has been logged
\* as skipped or updated.
C18_CallsInOrder ==
    /\ calls # <<>> => Pos("resolve") = {1}
    /\ Len(calls) > 1 => ip # None
    /\ \A q \in Pos("patch") :
          /\ calls[q - 1].op = "get"
          /\ calls[q - 1].domain = calls[q].domain
          /\ Delivers(calls[q - 1].resp, domain_list[calls[q].domain].name)
    /\ \A d \in 1..NumDomains :
          /\ Cardinality(Gets(d)) <= 1
          /\ Cardinality(Patches(d)) <= 1
          /\ (d > 1 /\ Gets(d) # {})
                => /\ Gets(d - 1) # {}
                   /\ outcome[d - 1] \in {"skipped", "updated"}
    /\ \A j, k \in 2..Len(calls) : j < k => calls[j].domain <= calls[k].domain
    /\ pc \in {"fetch", "patch"}
          => \A k \in 2..Len(calls) : calls[k].domain <= idx

\* A finished cycle of five calls: the resolution, then a lookup and a PATCH
\* for each of the two domains.
C18_Witness ==
    /\ CycleDone
    /\ Len(calls) = 5
    /\ Patches(1) = {3}
    /\ Patches(2) = {5}

\* C19: a PATCH targets the id of the record just fetched and names it as
\* the fetched record is named.
C19_UpdateKeepsIdAndName ==
    \A q \in Pos("patch") :
        LET n == domain_list[calls[q].domain].name
            record == Delivered(calls[q - 1].resp, n)
        IN  /\ calls[q].req.id = record.id
            /\ calls[q].req.body.name = record.name

C21_IntervalNeverOverflows ==
    pc # "idle"
        => /\ pc # "panicked"
           /\ interval # None
           /\ u64_divrem(interval[1], SecondsPerMinute)
                 = [quot |-> update_interval, rem |-> 0]

\* C22: current_ip is None when run starts; it changes only in the step that
\* resolves the IP, to the address resolved; a resolution that fails leaves
\* it as it was; and from a successful resolution to the end of the cycle,
\* failed or not, it is the resolved address.
C22_CurrentIpFollowsResolution ==
    /\ [](pc = "idle" => current_ip = None)
    /\ [][current_ip' # current_ip
            => (pc = "resolve" /\ ip' # None /\ current_ip' = ip')]_vars
    /\ [][(pc = "resolve" /\ pc' # "resolve" /\ ip' = None)
            => current_ip' = current_ip]_vars
    /\ []((calls # <<>> /\ ip # None) => current_ip = ip)

\* A cycle has failed at its second domain's PATCH after a successful
\* resolution, and current_ip is the address resolved.
C22_Witness ==
    /\ CycleDone
    /\ result = "err"
    /\ outcome[2] = "failed"
    /\ Patches(2) # {}
    /\ ip # None
    /\ current_ip = ip

====
